---- MODULE Spec2Model ----
(***************************************************************************)
(* ExpectationMaximizationKalmanFilter (src/src/emkf.py) as a state        *)
(* machine: the constructor, forward() in its two modes, the M-steps, the  *)
(* backward recursion and the result accessors.                            *)
(*                                                                         *)
(* Values.  The transition matrix F and the offset b are followed through  *)
(* one generic entry, an integer number of ticks.  The state trajectories  *)
(* are followed as expressions: every array entry holds the expression     *)
(* that the code evaluated to produce it (<<"F@x+b", F, x, b>> is          *)
(* F @ x + b), so two entries are equal when the code computed them the    *)
(* same way from the same inputs.  y[t] appears in an expression as t.     *)
(* The regressions res1 @ pinv(res2) and the mean residual b_est depend on *)
(* the observations; their outcome is drawn from EstValues / BEstValues,   *)
(* except where the code's sums are empty and the outcome is 0.            *)
(***************************************************************************)
EXTENDS Integers, Sequences, FiniteSets, TLC

\* ---------------------------------------------------------------- bounds
MaxT == 3
MaxTau == 2
MaxIter == 2
NDimSys == 1

\* ------------------------------------------------------ program constants
\* F and b in ticks: the defaults F = eye and b = zeros; the rates at the top
\* of their range (0, 1], so that a damped step is a whole number of ticks
F0 == 1
b0 == 0
eta == 1
cutoff == 2
etab == 1
cutoffb == 1

Unbound == 0 - 1
None == <<>>
Zero == <<"zero">>
\* the outcome of a call before any call has completed
NoResult == [op |-> "none", arg |-> None, lazy |-> FALSE, exc |-> "", val |-> None]
\* outcomes of the regression for F_est and of the mean residual b_est: on
\* either side of the current value, within and beyond the clip threshold
EstValues == {0 - 3, 3}
BEstValues == {0 - 2, 2}

VARIABLES
    T, tau, iteration, em_vars, mode, store_transition_matrices_on,
    F, b, Fs,
    allocated, x_pred, V_pred, x_filt, V_filt, x_smooth, V_smooth, V_pair,
    pc, s, n, t, k, F_est, caller, ret, err,
    runs, F_block, b_block, F_muts, F_block_muts, b_block_muts, Fs_writes,
    pred_by, filt_by, pair_by, F_log, mstep

config == <<T, tau, iteration, em_vars, mode, store_transition_matrices_on>>
trajectories == <<x_pred, V_pred, x_filt, V_filt, x_smooth, V_smooth, V_pair>>
ghosts == <<F_block, b_block, F_muts, F_block_muts, b_block_muts, Fs_writes>>
\* who wrote each entry last (<<pass, index, iteration>>), the mutations of F
\* in order, and the arguments of the last call of _update_transition_matrix
writers == <<pred_by, filt_by, pair_by>>
probes == <<writers, F_log, mstep>>
vars == <<config, F, b, Fs, allocated, trajectories, pc, s, n, t, k, F_est,
          caller, ret, err, runs, ghosts, probes>>

\* ---------------------------------------------------------------- helpers
Min2(a, c) == IF a <= c THEN a ELSE c
Max2(a, c) == IF a >= c THEN a ELSE c

\* len(range(lo, hi))
RangeLen(lo, hi) == IF hi > lo THEN hi - lo ELSE 0

\* the seven arrays as one record
Traj ==
    [x_pred |-> x_pred, V_pred |-> V_pred, x_filt |-> x_filt, V_filt |-> V_filt,
     x_smooth |-> x_smooth, V_smooth |-> V_smooth, V_pair |-> V_pair]

SetTraj(r) ==
    /\ x_pred' = r.x_pred
    /\ V_pred' = r.V_pred
    /\ x_filt' = r.x_filt
    /\ V_filt' = r.V_filt
    /\ x_smooth' = r.x_smooth
    /\ V_smooth' = r.V_smooth
    /\ V_pair' = r.V_pair

\* xp.zeros((T, ...))
Zeros(len) == [i \in 0..(len - 1) |-> Zero]

\* ------------------------------------------------------------ constructor
FsLen(len, step) == ((len - 1) \div step) + 1 + 1

FsInit(len, step, on) ==
    IF on THEN [i \in 0..(FsLen(len, step) - 1) |-> IF i = 0 THEN F0 ELSE 0]
    ELSE None

Init ==
    /\ T \in 1..MaxT
    /\ tau \in 1..MaxTau
    /\ iteration \in 0..MaxIter
    /\ em_vars \in SUBSET {"F", "b"}
    /\ mode \in {"filter", "smooth"}
    /\ store_transition_matrices_on \in BOOLEAN
    /\ F = F0
    /\ b = b0
    /\ Fs = FsInit(T, tau, store_transition_matrices_on)
    /\ allocated = FALSE
    /\ x_pred = None /\ V_pred = None /\ x_filt = None /\ V_filt = None
    /\ x_smooth = None /\ V_smooth = None /\ V_pair = None
    /\ pc = "idle"
    /\ s = 0 /\ n = 0 /\ t = Unbound /\ k = 0
    /\ F_est = F0
    /\ caller = None
    /\ ret = NoResult
    /\ err = ""
    /\ runs = 0
    /\ F_block = F0 /\ b_block = b0
    /\ F_muts = 0 /\ F_block_muts = 0 /\ b_block_muts = 0
    /\ Fs_writes = <<>>
    /\ pred_by = None /\ filt_by = None /\ pair_by = None
    /\ F_log = <<>>
    /\ mstep = [calls |-> 0, s |-> 0, n |-> 0, last |-> 0, len |-> 0]

\* ------------------------------------------------------ forward recursion
predict_update(r, i, Fv, bv) ==
    [r EXCEPT !.x_pred[i] = <<"F@x+b", Fv, r.x_filt[i - 1], bv>>,
              !.V_pred[i] = <<"F@V@F.T+Q", Fv, r.V_filt[i - 1]>>]

KalmanGain(Vp) == <<"K", Vp>>

filter_update(r, i) ==
    [r EXCEPT !.x_filt[i] = <<"x+K@(y-H@x-d)", r.x_pred[i], KalmanGain(r.V_pred[i]), i>>,
              !.V_filt[i] = <<"V-K@H@V", r.V_pred[i], KalmanGain(r.V_pred[i])>>]

\* ----------------------------------------------------- backward recursion
SmootherGain(r, i, Fv) == <<"A", r.V_filt[i], Fv, r.V_pred[i + 1]>>

RECURSIVE backward_loop(_, _, _, _)
backward_loop(r, i, lo, Fv) ==
    IF i < lo THEN r
    ELSE LET A == SmootherGain(r, i, Fv)
             r1 == [r EXCEPT
                      !.x_smooth[i] = <<"x+A@(xs-xp)", r.x_filt[i], A,
                                        r.x_smooth[i + 1], r.x_pred[i + 1]>>,
                      !.V_smooth[i] = <<"V+A@(Vs-Vp)@A.T", r.V_filt[i], A,
                                        r.V_smooth[i + 1], r.V_pred[i + 1]>>,
                      !.V_pair[i + 1] = <<"Vs@A.T", r.V_smooth[i + 1], A>>]
         IN backward_loop(r1, i - 1, lo, Fv)

\* the recursion started from the predicted values instead of the filtered ones
BackwardStart_from_predicted(r, last) ==
    [r EXCEPT !.x_smooth[last] = r.x_pred[last],
              !.V_smooth[last] = r.V_pred[last]]

\* lines 448-449
BackwardStart(r, last) ==
    [r EXCEPT !.x_smooth[last] = r.x_filt[last],
              !.V_smooth[last] = r.V_filt[last]]

backward(r, last, len, Fv) ==
    backward_loop(BackwardStart(r, last), last - 1, last - len, Fv)

\* ------------------------------------------------------------ damped clip
DampedClip(old, est, rate, thr) ==
    old - rate * Min2(Max2(0 - thr, old - est), thr)

\* ---------------------------------------------------------------- M-steps
\* res1 @ pinv(res2) over range(lo, hi): the zero matrix when the range is
\* empty (both sums stay at their zeros), else the regression's outcome
Regression(lo, hi, cand) == IF RangeLen(lo, hi) = 0 THEN 0 ELSE cand

\* _update_transition_matrix(last, len, Fv): the backward pass, the candidate
\* F_est (bound only when "F" is in em_vars), and the offset update
update_transition_matrix(r, last, len, Fv, candF, candb) ==
    LET r1 == backward(r, last, len, Fv)
        bUpdated == ("b" \in em_vars) /\ (len > 1)
    IN [tr |-> r1,
        b |-> IF bUpdated THEN DampedClip(b, candb, etab, cutoffb) ELSE b,
        bUpdated |-> bUpdated,
        bound |-> "F" \in em_vars,
        F_est |-> Regression(last - len + 1, last + 1, candF)]

\* self.Fs[idx] = self.F, when history retention is on
StoreF(idx, Fv) ==
    IF ~store_transition_matrices_on
    THEN /\ UNCHANGED <<Fs, Fs_writes>>
         /\ err' = err
    ELSE IF idx \in DOMAIN Fs
    THEN /\ Fs' = [Fs EXCEPT ![idx] = Fv]
         /\ Fs_writes' = Append(Fs_writes, idx)
         /\ err' = err
    ELSE /\ UNCHANGED <<Fs, Fs_writes>>
         /\ err' = "IndexError"

StoreFails(idx) == store_transition_matrices_on /\ idx \notin DOMAIN Fs

\* ----------------------------------------------------------------- forward
\* the allocation and the initial setting of forward(), lines 228-243; ret is
\* the outcome of the last completed call, and a call in progress has none
NotWritten == <<"none", 0, 0>>

StartRun ==
    /\ allocated' = TRUE
    /\ runs' = runs + 1
    /\ SetTraj([x_pred   |-> [Zeros(T) EXCEPT ![0] = <<"initial_mean">>],
                V_pred   |-> [Zeros(T) EXCEPT ![0] = <<"initial_covariance">>],
                x_filt   |-> Zeros(T), V_filt |-> Zeros(T),
                x_smooth |-> Zeros(T), V_smooth |-> Zeros(T),
                V_pair   |-> Zeros(T)])
    /\ pc' = IF mode = "smooth" THEN "block" ELSE "f_init"
    /\ s' = 0 /\ n' = 0 /\ t' = Unbound /\ k' = 0
    /\ F_est' = F
    /\ err' = ""
    /\ ret' = NoResult
    /\ pred_by' = [i \in 0..(T - 1) |-> IF i = 0 THEN <<"init", 0, 0>> ELSE NotWritten]
    /\ filt_by' = [i \in 0..(T - 1) |-> NotWritten]
    /\ pair_by' = [i \in 0..(T - 1) |-> NotWritten]
    /\ UNCHANGED <<config, F, b, Fs, ghosts, F_log, mstep>>

\* forward() called by the client, once, on an estimator that has not run
Forward ==
    /\ pc = "idle" /\ runs = 0 /\ caller = None
    /\ StartRun
    /\ caller' = caller

InnerEnd == Min2(s + tau + 1, T)

\* smooth mode, lines 249-253: the head of one pass of `for s in range(0, T, tau)`
BlockStart ==
    /\ pc = "block" /\ s < T
    /\ F_est' = F
    /\ SetTraj(filter_update(IF s # 0 THEN predict_update(Traj, s, F, b) ELSE Traj, s))
    /\ n' = 0
    /\ pc' = "iter"
    /\ F_block' = F /\ b_block' = b
    /\ F_block_muts' = 0 /\ b_block_muts' = 0
    /\ pred_by' = IF s # 0 THEN [pred_by EXCEPT ![s] = <<"block", s, 0>>] ELSE pred_by
    /\ filt_by' = [filt_by EXCEPT ![s] = <<"block", s, 0>>]
    /\ UNCHANGED <<config, F, b, Fs, allocated, s, t, k, caller, ret, err, runs,
                   F_muts, Fs_writes, pair_by, F_log, mstep>>

\* lines 255-259: the head of one pass of `for n in range(self.iteration)`
IterStart ==
    /\ pc = "iter" /\ n < iteration
    /\ SetTraj(IF n # 0
               THEN [Traj EXCEPT
                       !.x_pred[s] = x_smooth[s],
                       !.V_pred[s] = <<"V-outer(x,x)", V_smooth[s], x_smooth[s]>>]
               ELSE Traj)
    /\ k' = s + 1
    /\ pc' = "inner"
    /\ pred_by' = IF n # 0 THEN [pred_by EXCEPT ![s] = <<"reset", s, n>>] ELSE pred_by
    /\ UNCHANGED <<config, F, b, Fs, allocated, s, n, t, F_est, caller, ret, err,
                   runs, ghosts, filt_by, pair_by, F_log, mstep>>

\* lines 260-264: one pass of `for t in range(s+1, min(s + tau + 1, T))`
InnerStep ==
    /\ pc = "inner" /\ k < InnerEnd
    /\ t' = k
    /\ SetTraj(filter_update(predict_update(Traj, k, F_est, b), k))
    /\ k' = k + 1
    /\ pred_by' = [pred_by EXCEPT ![k] = <<"inner", s, n>>]
    /\ filt_by' = [filt_by EXCEPT ![k] = <<"inner", s, n>>]
    /\ UNCHANGED <<config, F, b, Fs, allocated, pc, s, n, F_est, caller, ret, err,
                   runs, ghosts, pair_by, F_log, mstep>>

\* line 265: F_est = self._update_transition_matrix(t, len(range(...)) - 1, F_est)
MStep ==
    /\ pc = "inner" /\ k >= InnerEnd
    /\ IF t = Unbound
       THEN /\ pc' = "error" /\ err' = "UnboundLocalError"
            /\ UNCHANGED <<trajectories, b, F_est, n, b_block_muts, pair_by, mstep>>
       ELSE \E candF \in EstValues, candb \in BEstValues :
              LET len == RangeLen(s, InnerEnd) - 1
                  res == update_transition_matrix(Traj, t, len, F_est, candF, candb)
              IN /\ SetTraj(res.tr)
                 /\ pair_by' = [i \in DOMAIN pair_by |->
                                  IF i \in (t - len + 1)..t THEN <<"backward", s, n>>
                                  ELSE pair_by[i]]
                 /\ mstep' = [calls |-> mstep.calls + 1, s |-> s, n |-> n,
                              last |-> t, len |-> len]
                 /\ b' = res.b
                 /\ b_block_muts' = IF res.bUpdated THEN b_block_muts + 1
                                    ELSE b_block_muts
                 /\ IF res.bound
                    THEN /\ F_est' = res.F_est /\ n' = n + 1
                         /\ pc' = "iter" /\ err' = err
                    ELSE /\ pc' = "error" /\ err' = "UnboundLocalError"
                         /\ UNCHANGED <<F_est, n>>
    /\ UNCHANGED <<config, F, Fs, allocated, s, t, k, caller, ret, runs,
                   F_block, b_block, F_muts, F_block_muts, Fs_writes,
                   pred_by, filt_by, F_log>>

\* lines 267-271: the damped-clip update of F after the inner loop
BlockUpdate ==
    /\ pc = "iter" /\ n >= iteration
    /\ F' = DampedClip(F, F_est, eta, cutoff)
    /\ F_muts' = F_muts + 1
    /\ F_block_muts' = F_block_muts + 1
    /\ StoreF((s \div tau) + 1, F')
    /\ IF StoreFails((s \div tau) + 1)
       THEN pc' = "error" /\ s' = s
       ELSE pc' = "block" /\ s' = s + tau
    /\ F_log' = Append(F_log, [at |-> s, F |-> F'])
    /\ UNCHANGED <<config, b, allocated, trajectories, n, t, k, F_est, caller, ret,
                   runs, F_block, b_block, b_block_muts, writers, mstep>>

SmoothDone ==
    /\ pc = "block" /\ s >= T
    /\ pc' = "done"
    /\ UNCHANGED <<config, F, b, Fs, allocated, trajectories, s, n, t, k, F_est,
                   caller, ret, err, runs, ghosts, probes>>

\* ------------------------------------------------------------- filter mode
\* _update_transition_matrix_approximately(at): the regression over
\* range(at+1, at+tau+1) from the filtered statistics; em_vars is not consulted
update_transition_matrix_approximately(at, cand) ==
    DampedClip(F, Regression(at + 1, at + tau + 1, cand), eta, cutoff)

\* line 277
LookAheadPoint(i) == ((i - 1) % tau = 0) /\ (i < T - tau)

\* line 273
FilterInit ==
    /\ pc = "f_init"
    /\ SetTraj(filter_update(Traj, 0))
    /\ t' = 1
    /\ pc' = "f_loop"
    /\ filt_by' = [filt_by EXCEPT ![0] = <<"first", 0, 0>>]
    /\ UNCHANGED <<config, F, b, Fs, allocated, s, n, k, F_est, caller, ret, err,
                   runs, ghosts, pred_by, pair_by, F_log, mstep>>

\* lines 277-278: entering `for s in range(t, t+tau+1)` at a look-ahead point
LookAheadEnter ==
    /\ pc = "f_loop" /\ t < T /\ LookAheadPoint(t)
    /\ s' = t
    /\ pc' = "f_look"
    /\ F_block' = F /\ b_block' = b
    /\ F_block_muts' = 0 /\ b_block_muts' = 0
    /\ UNCHANGED <<config, F, b, Fs, allocated, trajectories, n, t, k, F_est,
                   caller, ret, err, runs, F_muts, Fs_writes, probes>>

\* lines 279-280: one pass of the look-ahead loop
LookAheadStep ==
    /\ pc = "f_look" /\ s < t + tau + 1
    /\ IF s \in 0..(T - 1)
       THEN /\ SetTraj(filter_update(predict_update(Traj, s, F, b), s))
            /\ s' = s + 1
            /\ pred_by' = [pred_by EXCEPT ![s] = <<"look", t, 0>>]
            /\ filt_by' = [filt_by EXCEPT ![s] = <<"look", t, 0>>]
            /\ UNCHANGED <<pc, err>>
       ELSE /\ pc' = "error" /\ err' = "IndexError"
            /\ UNCHANGED <<trajectories, s, pred_by, filt_by>>
    /\ UNCHANGED <<config, F, b, Fs, allocated, n, t, k, F_est, caller, ret,
                   runs, ghosts, pair_by, F_log, mstep>>

\* line 281 with lines 411-429
ApproxUpdate ==
    /\ pc = "f_look" /\ s >= t + tau + 1
    /\ \E cand \in EstValues :
         /\ F' = update_transition_matrix_approximately(t, cand)
         /\ StoreF((t \div tau) + 1, F')
    /\ F_muts' = F_muts + 1
    /\ F_block_muts' = F_block_muts + 1
    /\ pc' = IF StoreFails((t \div tau) + 1) THEN "error" ELSE "f_step"
    /\ F_log' = Append(F_log, [at |-> t, F |-> F'])
    /\ UNCHANGED <<config, b, allocated, trajectories, s, n, t, k, F_est, caller,
                   ret, runs, F_block, b_block, b_block_muts, writers, mstep>>

\* the loop resumed after the look-ahead window: the indices the look-ahead
\* covered keep its entries
NormalStep_after_window ==
    /\ \/ pc = "f_step"
       \/ (pc = "f_loop" /\ t < T /\ ~LookAheadPoint(t))
    /\ IF pc = "f_step"
       THEN /\ t' = t + tau + 1
            /\ UNCHANGED <<trajectories, pred_by, filt_by>>
       ELSE /\ SetTraj(filter_update(predict_update(Traj, t, F, b), t))
            /\ t' = t + 1
            /\ pred_by' = [pred_by EXCEPT ![t] = <<"normal", t, 0>>]
            /\ filt_by' = [filt_by EXCEPT ![t] = <<"normal", t, 0>>]
    /\ pc' = "f_loop"
    /\ UNCHANGED <<config, F, b, Fs, allocated, s, n, k, F_est, caller, ret, err,
                   runs, ghosts, pair_by, F_log, mstep>>

\* lines 282-283: the one-step pass at t, and the loop's advance
NormalStep ==
    /\ \/ pc = "f_step"
       \/ pc = "f_loop" /\ t < T /\ ~LookAheadPoint(t)
    /\ SetTraj(filter_update(predict_update(Traj, t, F, b), t))
    /\ t' = t + 1
    /\ pc' = "f_loop"
    /\ pred_by' = [pred_by EXCEPT ![t] = <<"normal", t, 0>>]
    /\ filt_by' = [filt_by EXCEPT ![t] = <<"normal", t, 0>>]
    /\ UNCHANGED <<config, F, b, Fs, allocated, s, n, k, F_est, caller, ret, err,
                   runs, ghosts, pair_by, F_log, mstep>>

FilterDone ==
    /\ pc = "f_loop" /\ t >= T
    /\ pc' = "done"
    /\ UNCHANGED <<config, F, b, Fs, allocated, trajectories, s, n, t, k, F_est,
                   caller, ret, err, runs, ghosts, probes>>

\* ---------------------------------------------------------------- accessors
\* a call's argument: None, or <<d>> for the integer d
Dims == {None} \cup {<<d>> : d \in (0 - 1)..(NDimSys + 1)}

\* arr[:, int(dim)] on an array whose axis 1 has NDimSys entries: a negative
\* index counts from the end, an index outside -NDimSys..NDimSys-1 raises
Column(arr, d) ==
    IF d >= NDimSys \/ d < 0 - NDimSys
    THEN [exc |-> "IndexError", val |-> None]
    ELSE [exc |-> "",
          val |-> [i \in DOMAIN arr |->
                     <<"coord", IF d < 0 THEN d + NDimSys ELSE d, arr[i]>>]]

\* lines 487-493 (and 512-518, 555-561): the branch on dim; building the
\* ValueError's message adds an int to a str, which raises TypeError
SelectDim(arr, dim) ==
    IF dim = None THEN [exc |-> "", val |-> arr]
    ELSE IF dim[1] <= NDimSys THEN Column(arr, dim[1])
    ELSE [exc |-> "TypeError", val |-> None]

Result(op, dim, lazy, out) ==
    [op |-> op, arg |-> dim, lazy |-> lazy, exc |-> out.exc, val |-> out.val]

ArrayOf(op) ==
    IF op = "predicted" THEN x_pred
    ELSE IF op = "filtered" THEN x_filt
    ELSE x_smooth

Quiescent == pc \in {"idle", "done", "error"} /\ caller = None

\* get_predicted_value / get_filtered_value: forward() runs when the attribute
\* does not exist yet, and the call resumes at AccessorResume
GetValue(op, dim) ==
    /\ Quiescent
    /\ IF allocated
       THEN /\ ret' = Result(op, dim, FALSE, SelectDim(ArrayOf(op), dim))
            /\ UNCHANGED <<config, F, b, Fs, allocated, trajectories, pc, s, n, t, k,
                           F_est, caller, err, runs, ghosts, probes>>
       ELSE /\ StartRun
            /\ caller' = <<op, dim>>

get_predicted_value == \E dim \in Dims : GetValue("predicted", dim)

get_filtered_value == \E dim \in Dims : GetValue("filtered", dim)

\* get_smoothed_value: the fallback calls self.smooth(), which the class does
\* not define
get_smoothed_value ==
    \E dim \in Dims :
        /\ Quiescent
        /\ ret' = IF allocated
                  THEN Result("smoothed", dim, FALSE, SelectDim(x_smooth, dim))
                  ELSE Result("smoothed", dim, TRUE,
                              [exc |-> "AttributeError", val |-> None])
        /\ UNCHANGED <<config, F, b, Fs, allocated, trajectories, pc, s, n, t, k,
                       F_est, caller, err, runs, ghosts, probes>>

\* the accessor's lines after self.forward() has returned or raised
AccessorResume ==
    /\ pc \in {"done", "error"} /\ caller # None
    /\ ret' = Result(caller[1], caller[2], TRUE,
                     IF pc = "error" THEN [exc |-> err, val |-> None]
                     ELSE SelectDim(ArrayOf(caller[1]), caller[2]))
    /\ caller' = None
    /\ UNCHANGED <<config, F, b, Fs, allocated, trajectories, pc, s, n, t, k,
                   F_est, err, runs, ghosts, probes>>

\* numpy.arange(lo, hi, step) as a sequence
RECURSIVE Arange(_, _, _)
Arange(lo, hi, step) ==
    IF lo >= hi THEN <<>> ELSE <<lo>> \o Arange(lo + step, hi, step)

\* arr[ids] for an integer index array ids
RECURSIVE Gather(_, _)
Gather(arr, ids) ==
    IF ids = <<>> THEN <<>>
    ELSE <<arr[Head(ids)]>> \o Gather(arr, Tail(ids))

\* a sequence as an array indexed from 0
AsArray(q) == [i \in 0..(Len(q) - 1) |-> q[i + 1]]

\* the accessor with ids ignored
get_transition_matrices_ignoring_ids(ids) ==
    IF store_transition_matrices_on THEN Fs ELSE F

\* lines 530-536; ids = <<>> stands for None
get_transition_matrices_value(ids) ==
    IF store_transition_matrices_on
    THEN IF ids = None THEN Fs ELSE AsArray(Gather(Fs, ids))
    ELSE F

IdsInputs ==
    {None} \cup {Arange(lo, FsLen(T, tau), step) : lo \in 0..1, step \in 1..2}
           \cup {<<FsLen(T, tau) - 1, 0>>}

get_transition_matrices ==
    \E ids \in IdsInputs :
        /\ Quiescent
        /\ ret' = Result("transition_matrices", ids, FALSE,
                         [exc |-> "", val |-> get_transition_matrices_value(ids)])
        /\ UNCHANGED <<config, F, b, Fs, allocated, trajectories, pc, s, n, t, k,
                       F_est, caller, err, runs, ghosts, probes>>

Next ==
    \/ Forward
    \/ BlockStart
    \/ IterStart
    \/ InnerStep
    \/ MStep
    \/ BlockUpdate
    \/ SmoothDone
    \/ FilterInit
    \/ LookAheadEnter
    \/ LookAheadStep
    \/ ApproxUpdate
    \/ NormalStep
    \/ FilterDone
    \/ get_predicted_value
    \/ get_filtered_value
    \/ get_smoothed_value
    \/ get_transition_matrices
    \/ AccessorResume

Spec == Init /\ [][Next]_vars

\* forward() called directly, and nothing else
Run ==
    \/ Forward
    \/ BlockStart
    \/ IterStart
    \/ InnerStep
    \/ MStep
    \/ BlockUpdate
    \/ SmoothDone
    \/ FilterInit
    \/ LookAheadEnter
    \/ LookAheadStep
    \/ ApproxUpdate
    \/ NormalStep
    \/ FilterDone

SpecRun == Init /\ [][Run]_vars

\* forward() called directly, and the history accessor
RunAndHistory ==
    \/ Run
    \/ get_transition_matrices

SpecHistory == Init /\ [][RunAndHistory]_vars

\* ================================================================== claims
\* ------------------------------------------------------------------ plain
\* the fixed-parameter Kalman filter and fixed-interval RTS smoother over the
\* whole sequence, every step with the initial F0 and b0
RECURSIVE PlainFilter(_)
PlainFilter(i) ==
    IF i = 0
    THEN filter_update(
             [x_pred   |-> [Zeros(T) EXCEPT ![0] = <<"initial_mean">>],
              V_pred   |-> [Zeros(T) EXCEPT ![0] = <<"initial_covariance">>],
              x_filt   |-> Zeros(T), V_filt |-> Zeros(T),
              x_smooth |-> Zeros(T), V_smooth |-> Zeros(T),
              V_pair   |-> Zeros(T)], 0)
    ELSE filter_update(predict_update(PlainFilter(i - 1), i, F0, b0), i)

PlainSmoother == backward(PlainFilter(T - 1), T - 1, T - 1, F0)

\* C1: with em_vars empty, a run of forward() in either mode completes, and its
\* filtered and smoothed trajectories are those of the plain Kalman filter
\* and RTS smoother run over the whole sequence with the initial F.
C1_NoAdaptationReduction ==
    (em_vars = {} /\ iteration >= 1 /\ allocated) =>
        /\ pc # "error"
        /\ pc = "done" =>
              /\ x_filt = PlainSmoother.x_filt
              /\ V_filt = PlainSmoother.V_filt
              /\ x_smooth = PlainSmoother.x_smooth
              /\ V_smooth = PlainSmoother.V_smooth

\* C2 as stated: once a run has finished, in either mode and for every
\* iteration count, the smoothed mean and covariance at T-1 equal the
\* filtered ones.
C2_BoundaryEveryRun ==
    pc = "done" =>
        /\ x_smooth[T - 1] = x_filt[T - 1]
        /\ V_smooth[T - 1] = V_filt[T - 1]

\* C2 as amended: once a smooth-mode run with an iteration count of at least
\* one has finished, the smoothed mean and covariance at T-1 equal the
\* filtered mean and covariance at T-1.
C2_BoundarySmoothMode ==
    (pc = "done" /\ mode = "smooth" /\ iteration >= 1) =>
        /\ x_smooth[T - 1] = x_filt[T - 1]
        /\ V_smooth[T - 1] = V_filt[T - 1]

C2_Witness ==
    /\ pc = "done" /\ mode = "smooth" /\ iteration >= 1 /\ T >= 3
    /\ x_smooth[T - 1] # Zero
    /\ x_smooth[T - 1] = x_filt[T - 1]
    /\ x_smooth[0] # x_filt[0]

Abs(a) == IF a < 0 THEN 0 - a ELSE a

\* C3: over the processing of one block, F changes by at most eta*cutoff and
\* b by at most etab*cutoffb, whatever the candidates and the iteration count.
C3_ClipBound ==
    /\ Abs(F - F_block) <= eta * cutoff
    /\ Abs(b - b_block) <= etab * cutoffb

\* C4: a parameter that is not in the EM-update set keeps its construction-time
\* value in every state of the run, in both modes.
C4_Frame ==
    /\ ("F" \notin em_vars) => F = F0
    /\ ("b" \notin em_vars) => b = b0

\* C5: an accessor called with a coordinate index outside 0..n_dim_sys-1 fails
\* with the ValueError of its range check, and with an index in range returns
\* that coordinate's time series.
C5_DimensionGuard ==
    (/\ ret.op \in {"predicted", "filtered", "smoothed"}
     /\ ret.arg # None
     /\ ret.exc \notin {"AttributeError", "UnboundLocalError"}) =>
        IF ret.arg[1] \in 0..(NDimSys - 1)
        THEN /\ ret.exc = ""
             /\ ret.val = [i \in 0..(T - 1) |-> <<"coord", ret.arg[1], ArrayOf(ret.op)[i]>>]
        ELSE ret.exc = "ValueError"

\* C6: an accessor called before the main run has been executed triggers the
\* run exactly once and then returns the computed trajectory; an accessor
\* called after the run has been executed does not run it again.
C6_LazyRun ==
    /\ ret.lazy =>
          /\ runs = 1
          /\ (ret.arg = None /\ pc = "done") =>
                (ret.exc = "" /\ ret.val = ArrayOf(ret.op))
    /\ (ret.op \in {"predicted", "filtered", "smoothed"} /\ ~ret.lazy) => runs = 1

\* C7: with history retention on, transition_matrices(ids) is the entries of
\* the history buffer at the indices ids, in the order of ids, and the whole
\* buffer when no ids are given; with retention off it is the current F.
C7_HistoryIndexing ==
    ret.op = "transition_matrices" =>
        /\ ret.exc = ""
        /\ IF ~store_transition_matrices_on THEN ret.val = F
           ELSE IF ret.arg = None THEN ret.val = Fs
           ELSE /\ DOMAIN ret.val = 0..(Len(ret.arg) - 1)
                /\ \A i \in 0..(Len(ret.arg) - 1) : ret.val[i] = Fs[ret.arg[i + 1]]

C7_Witness ==
    /\ ret.op = "transition_matrices"
    /\ store_transition_matrices_on
    /\ pc = "done"
    /\ Len(Fs_writes) >= 2
    /\ Len(ret.arg) >= 2
    /\ ret.arg[2] = ret.arg[1] + 2
    /\ ret.val[0] # ret.val[1]

\* C8: for every T >= 1, tau >= 1, iteration count >= 1 and EM-update set,
\* forward() ends normally in both modes, and at its end a predicted and a
\* filtered value has been written at every time index.
C8_Termination ==
    iteration >= 1 =>
        /\ pc # "error"
        /\ pc = "done" =>
              \A i \in 0..(T - 1) : x_pred[i] # Zero /\ x_filt[i] # Zero

\* C9: in smooth mode F and b are each mutated at most once per block, neither
\* changes while inner iterations of the block remain, and F has been mutated
\* exactly once when the block is complete.
C9_MutationSchedule ==
    mode = "smooth" =>
        /\ F_block_muts <= 1
        /\ b_block_muts <= 1
        /\ (pc \in {"iter", "inner"} /\ n < iteration) =>
              (F_block_muts = 0 /\ b_block_muts = 0)
        /\ (pc = "block" /\ F_muts > 0) => F_block_muts = 1

\* C10: with history retention on, the buffer has length floor((T-1)/tau)+2,
\* slot 0 holds the initial F, and the k-th mutation of F is stored in slot k,
\* so the written slots are 1..k and slot k holds the current F.
C10_HistoryBuffer ==
    store_transition_matrices_on =>
        /\ DOMAIN Fs = 0..(((T - 1) \div tau) + 1)
        /\ Fs[0] = F0
        /\ pc # "error" => Len(Fs_writes) = F_muts
        /\ \A j \in 1..Len(Fs_writes) : Fs_writes[j] = j
        /\ (pc # "error" /\ F_muts > 0) => Fs[F_muts] = F

\* C13: in smooth mode, when an inner iteration n >= 1 of block s has started
\* (the reset of lines 257-259 has run, the iteration's forward pass is under
\* way), the predicted mean at s is the smoothed mean at s of iteration n-1 and
\* the predicted covariance at s is the smoothed covariance at s of iteration
\* n-1, the same matrix, unmodified.
C13_InnerIterationReset ==
    (mode = "smooth" /\ pc = "inner" /\ n >= 1)
        => /\ x_pred[s] = x_smooth[s]
           /\ V_pred[s] = V_smooth[s]

\* C14: in smooth mode, right after a call of _update_transition_matrix for
\* block s (the next inner iteration not yet started), the call covered s..e
\* with e = min(s + tau, T - 1) and e > s, e was filtered last in that same
\* inner iteration, every predicted and filtered entry of s..e is written, and
\* the sums of F_est ran over at least one index.
C14_NonEmptyBlock ==
    (mode = "smooth" /\ pc = "iter" /\ mstep.calls > 0 /\ mstep.s = s
        /\ mstep.n = n - 1)
        => LET e == Min2(s + tau, T - 1)
           IN /\ mstep.last = e
              /\ e > s
              /\ mstep.len = e - s
              /\ filt_by[e] = <<"inner", s, mstep.n>>
              /\ \A i \in s..e : /\ pred_by[i] # NotWritten
                                 /\ filt_by[i] # NotWritten
              /\ RangeLen(mstep.last - mstep.len + 1, mstep.last + 1) >= 1

\* C11: in filter mode, when the approximate M-step of the look-ahead point t
\* has read its statistics, each V_pair[i] for i in t+1..t+tau was written by
\* that look-ahead's forward pass (it no longer holds its allocation value),
\* and each filtered mean and covariance entry of t..t+tau was written by that
\* look-ahead.
C11_WrittenBeforeRead ==
    (mode = "filter" /\ pc = "f_step")
        => /\ \A i \in (t + 1)..(t + tau) :
                /\ pair_by[i] = <<"look", t, 0>>
                /\ V_pair[i] # Zero
           /\ \A i \in t..(t + tau) :
                /\ filt_by[i] = <<"look", t, 0>>
                /\ x_filt[i] # Zero /\ V_filt[i] # Zero

\* the F in force at loop index i of filter mode: the value left by the last
\* update triggered at a look-ahead point <= i, else the constructor's F
RECURSIVE FInForceFrom(_, _)
FInForceFrom(j, i) ==
    IF j = 0 THEN F0
    ELSE IF F_log[j].at <= i THEN F_log[j].F
    ELSE FInForceFrom(j - 1, i)

FInForce(i) == FInForceFrom(Len(F_log), i)

\* C12: in filter mode, a look-ahead happens at a look-ahead point t and
\* writes the indices t..t+tau, and every index the one-step loop has passed (all of
\* 1..T-1 at termination) holds the predicted and filtered entries the normal
\* pass produced at that loop index, computed with the F in force after every
\* update triggered at a look-ahead point <= that index, never a look-ahead's
\* transient value.
C12_FinalValues ==
    /\ (mode = "filter" /\ pc = "f_step")
        => /\ LookAheadPoint(t)
           /\ \A i \in t..(t + tau) : /\ pred_by[i] = <<"look", t, 0>>
                                      /\ filt_by[i] = <<"look", t, 0>>
    /\ (mode = "filter" /\ pc \in {"f_loop", "done"})
        => \A i \in 1..(Min2(t, T) - 1) :
             LET one == filter_update(
                            predict_update(Traj, i, FInForce(i), b), i)
             IN /\ pred_by[i] = <<"normal", i, 0>>
                /\ filt_by[i] = <<"normal", i, 0>>
                /\ x_pred[i] = one.x_pred[i] /\ V_pred[i] = one.V_pred[i]
                /\ x_filt[i] = one.x_filt[i] /\ V_filt[i] = one.V_filt[i]

\* a filter-mode run that has terminated after a look-ahead rewrote F
C12_Witness ==
    /\ mode = "filter" /\ pc = "done"
    /\ F_log # <<>>
    /\ F # F0
    /\ \E i \in 1..(T - 1) : FInForce(i) # F0

====
